---- MODULE Spec2Model ----
(***************************************************************************)
(* A model of io_scene_wowobj/import_wowobj.py: the recursive importer     *)
(* importWoWOBJ, the Blender scene it builds (bpy.data.objects, the scene  *)
(* property importedModelIDs) and the OBJ face parser and mesh builder.    *)
(***************************************************************************)
EXTENDS Integers, Sequences, FiniteSets, TLC

\* ------------------------------------------------------------------ bounds
\* Longest ADT placement table drawn for a.obj.
MaxADTRows == 2
\* Top-level calls of importWoWOBJAddon made on the same scene.
MaxRuns == 2
\* Nested importWoWOBJ frames before Python raises RecursionError.
MaxDepth == 3

\* --------------------------------------------------------------- rationals
\* Python floats are modelled as exact rationals <<numerator, denominator>>.
RECURSIVE Gcd(_, _)
Gcd(a, b) == IF b = 0 THEN a ELSE Gcd(b, a % b)

Abs(n) == IF n < 0 THEN -n ELSE n

Rat(n, d) ==
    LET g == Gcd(Abs(n), d) IN IF g = 0 THEN <<0, 1>> ELSE <<n \div g, d \div g>>

\* float(s) of a decimal string holding the integer n
float(n) == Rat(n, 1)

RSub(p, q) == Rat(p[1] * q[2] - q[1] * p[2], p[2] * q[2])

RMul(p, q) == Rat(p[1] * q[1], p[2] * q[2])

RNeg(p) == <<-p[1], p[2]>>

\* max_size = 51200 / 3
max_size == Rat(51200, 3)

Range(s) == {s[i] : i \in DOMAIN s}

\* ------------------------------------------------------------- file system
\* The export directory: a.obj is a terrain tile with an ADT placement table,
\* w.obj a WMO with a WMO-style table of its doodads, m.obj a plain model,
\* x.obj is referenced by placement rows but is not on disk.
Files == {"a.obj", "w.obj", "m.obj", "x.obj"}

OnDisk == {"a.obj", "w.obj", "m.obj"}

Settings ==
    [importWMO : BOOLEAN, importM2 : BOOLEAN, importGOBJ : BOOLEAN,
     importWMOSets : BOOLEAN, allowDuplicates : BOOLEAN]

\* One row of an ADT-style table (a 'Type' column is present).  ScaleFactor is
\* the cell's text: <<>> for the empty string, <<n>> for the decimal n.
ADTRow(type, id, file, pos, scale) ==
    [Type |-> type, ModelId |-> id, ModelFile |-> file,
     PositionX |-> pos[1], PositionY |-> pos[2], PositionZ |-> pos[3],
     RotationX |-> 10, RotationY |-> 20, RotationZ |-> 30, RotationW |-> 1,
     ScaleFactor |-> scale]

\* One row of a WMO-style table (no 'Type' column).
WMORow(file, pos, scale) ==
    [ModelFile |-> file,
     PositionX |-> pos[1], PositionY |-> pos[2], PositionZ |-> pos[3],
     RotationX |-> 10, RotationY |-> 20, RotationZ |-> 30, RotationW |-> 1,
     ScaleFactor |-> scale]

\* The rows an ADT table is drawn from.
ADTRows ==
    { ADTRow("wmo",  "101", "w.obj", <<100, 50, 200>>, <<>>),
      ADTRow("wmo",  "102", "m.obj", <<7, 8, 9>>,      <<2>>),
      ADTRow("wmo",  "102", "a.obj", <<1, 2, 3>>,      <<>>),
      ADTRow("m2",   "101", "m.obj", <<4, 5, 6>>,      <<2>>),
      ADTRow("m2",   "102", "m.obj", <<6, 4, 5>>,      <<>>),
      ADTRow("m2",   "101", "x.obj", <<1, 1, 1>>,      <<>>),
      ADTRow("m2",   "102", "a.obj", <<3, 2, 1>>,      <<>>),
      ADTRow("gobj", "101", "w.obj", <<9, 8, 7>>,      <<>>),
      ADTRow("gobj", "102", "m.obj", <<2, 4, 6>>,      <<3>>) }

RECURSIVE SeqsUpTo(_, _)
SeqsUpTo(S, n) ==
    IF n = 0 THEN {<<>>}
    ELSE LET shorter == SeqsUpTo(S, n - 1)
         IN  shorter \cup {Append(s, x) : s \in {t \in shorter : Len(t) = n - 1}, x \in S}

ADTTables == SeqsUpTo(ADTRows, MaxADTRows)

\* The doodad set of w.obj: two placements of m.obj and one of w.obj itself.
WMOTable ==
    << WMORow("m.obj", <<1, 2, 3>>, <<2>>),
       WMORow("m.obj", <<4, 5, 6>>, <<>>),
       WMORow("w.obj", <<0, 0, 1>>, <<>>) >>

NoTable == [style |-> "none", rows |-> <<>>]


\* ------------------------------------------------------------------- state
VARIABLES
    settings,   \* the import operator's options, fixed for the session
    csv,        \* file name -> its _ModelPlacementInformation.csv, or NoTable
    objects,    \* bpy.data.objects, in creation order; the index is the identity
    bpyMeshes,  \* bpy.data.meshes, in creation order
    scene,      \* bpy.context.scene custom properties (importedModelIDs)
    stack,      \* the active importWoWOBJ frames, outermost first
    runs,       \* one record per top-level importWoWOBJAddon call (history)
    last,       \* what the latest placement row did (history)
    pc,         \* where the OBJ reader and mesh builder of one file stand
    verts,      \* the 'v' lines read so far
    normals,    \* the 'vn' lines read so far
    uvs,        \* the UV layers read so far, each a list of 'vt' entries
    meshes,     \* the OBJMesh groups read so far
    meshIndex,  \* index of the current group, Python style (-1 before any 'g')
    bm,         \* the bmesh under construction: vertex count and faces
    cur,        \* how many of the file's faces the builder has been through
    vtLines     \* the layer_index of each 'vt' line read so far (history)

sceneVars == <<settings, csv, objects, bpyMeshes, scene, stack, runs, last>>

readerVars == <<pc, verts, normals, uvs, meshes, meshIndex, bm, cur, vtLines>>

vars == <<sceneVars, readerVars>>

None == 0

Zero3 == <<float(0), float(0), float(0)>>

One3 == <<float(1), float(1), float(1)>>

\* rotation_euler = to_euler(quat) + deg, quat being the Quaternion constructor's
\* arguments in the order given (<<>> for no quaternion), deg in degrees.
Euler(x, y, z) == [quat |-> <<>>, deg |-> <<x, y, z>>]

\* bpy.data.objects.new / Object.copy give the first free name: base, base.001, ...
UniqueName(objs, base) ==
    <<base, Cardinality({i \in DOMAIN objs : objs[i].name[1] = base})>>

\* name in bpy.data.objects
HasName(objs, base) == \E i \in DOMAIN objs : objs[i].name = <<base, 0>>

\* bpy.data.objects[name]
ByName(objs, base) == CHOOSE i \in DOMAIN objs : objs[i].name = <<base, 0>>

\* Mutant of NewEmpty: the group is linked to the scene but not parented.
NewEmptyDetached(objs, base, parentIdx) ==
    [name |-> UniqueName(objs, base), data |-> None, parent |-> None,
     location |-> Zero3, rotation |-> Euler(0 - 90, 0, 0), scale |-> One3,
     made |-> "empty", row |-> <<>>]

\* bpy.data.objects.new(name, None) followed by the group set-up of lines 395-400
NewEmpty(objs, base, parentIdx) ==
    [name |-> UniqueName(objs, base), data |-> None, parent |-> parentIdx,
     location |-> Zero3, rotation |-> Euler(0 - 90, 0, 0), scale |-> One3,
     made |-> "empty", row |-> <<>>]

\* obj = bpy.data.objects.new(objname, newmesh); rotation_euler.x = radians(90)
NewMeshObject(objs, mshs, f) ==
    [name |-> UniqueName(objs, f), data |-> Len(mshs) + 1, parent |-> None,
     location |-> Zero3, rotation |-> Euler(90, 0, 0), scale |-> One3,
     made |-> "parsed", row |-> <<>>]

\* Mutant of CopyObject: the copy gets a mesh datablock of its own.
CopyObjectWithData(objs, orig) ==
    [objs[orig] EXCEPT !.name = UniqueName(objs, objs[orig].name[1]),
                       !.data = 0 - (Len(objs) + 1),
                       !.made = "copy", !.row = <<>>]

\* originalObject.copy(): a new object sharing the original's data and transform
CopyObject(objs, orig) ==
    [objs[orig] EXCEPT !.name = UniqueName(objs, objs[orig].name[1]),
                       !.made = "copy", !.row = <<>>]

use_csv ==
    \/ settings.importWMO \/ settings.importM2
    \/ settings.importWMOSets \/ settings.importGOBJ

\* os.path.exists(csvPath)
CsvExists(f) == csv[f].style # "none"

\* if row['ScaleFactor']: scale = (float(s), float(s), float(s))
ScaleOf(row, old) ==
    IF row.ScaleFactor # <<>>
    THEN <<float(row.ScaleFactor[1]), float(row.ScaleFactor[1]), float(row.ScaleFactor[1])>>
    ELSE old

\* Mutant of ADTLocation: the game's Y and Z axes are not exchanged.
ADTLocationUnswapped(row) ==
    << RSub(max_size, float(row.PositionX)),
       RMul(RSub(max_size, float(row.PositionY)), float(0 - 1)),
       float(row.PositionZ) >>

\* (max_size - PositionX, (max_size - PositionZ) * -1, PositionY)
ADTLocation(row) ==
    << RSub(max_size, float(row.PositionX)),
       RMul(RSub(max_size, float(row.PositionZ)), float(0 - 1)),
       float(row.PositionY) >>

\* (PositionY, -PositionX, PositionZ)
GOBJLocation(row) ==
    << float(row.PositionY), RNeg(float(row.PositionX)), float(row.PositionZ) >>

\* (PositionX, PositionY, PositionZ)
WMOLocation(row) ==
    << float(row.PositionX), float(row.PositionY), float(row.PositionZ) >>

\* x += RotationZ; y += RotationX; z = 90 + RotationY
ADTRotation(rot, row) ==
    [rot EXCEPT !.deg = << rot.deg[1] + row.RotationZ,
                           rot.deg[2] + row.RotationX,
                           90 + row.RotationY >>]


\* -------------------------------------------------------------- one call
Top == stack[Len(stack)]

\* The files being resolved: the objectFile of every active frame.
Resolving == {stack[i].objectFile : i \in DOMAIN stack}

NoEvent ==
    [kind |-> "none", row |-> <<>>, table |-> "none", file |-> "", depth |-> 0,
     run |-> 0, nameKnown |-> FALSE, hasTable |-> FALSE, onStack |-> FALSE,
     node |-> None]

CurrentRun == Len(runs)

\* An importWoWOBJ frame: the locals that live across the row loop.
Frame(f, givenParent, obj, importType, rows, wmoparent, doodadparent, gobjparent) ==
    [objectFile |-> f, givenParent |-> givenParent, obj |-> obj,
     importType |-> importType, rows |-> rows, done |-> 0,
     wmoparent |-> wmoparent, doodadparent |-> doodadparent,
     gobjparent |-> gobjparent,
     tempModelIDList |-> <<>>, parent |-> None]

\* importWoWOBJ(f, givenParent, settings) up to the row loop, for a file on
\* disk: the mesh object is built and linked, then the table header decides
\* the import type and the group parents.  Yields the scene and the new frame.
Enter(objs, mshs, f, givenParent) ==
    LET objs1 == Append(objs, NewMeshObject(objs, mshs, f))
        mshs1 == Append(mshs, [name |-> f, made |-> "parsed"])
        obj   == Len(objs1)
        read  == use_csv /\ CsvExists(f)
    IN  IF ~read
        THEN [objects |-> objs1, bpyMeshes |-> mshs1,
              frame |-> Frame(f, givenParent, obj, "none", <<>>, None, None, None)]
        ELSE IF csv[f].style = "ADT"
        THEN LET objs2 == IF settings.importWMO
                          THEN Append(objs1, NewEmpty(objs1, "WMOs", obj)) ELSE objs1
                 wp    == IF settings.importWMO THEN Len(objs2) ELSE None
                 objs3 == IF settings.importM2
                          THEN Append(objs2, NewEmpty(objs2, "Doodads", obj)) ELSE objs2
                 dp    == IF settings.importM2 THEN Len(objs3) ELSE None
                 objs4 == IF settings.importGOBJ
                          THEN Append(objs3, NewEmpty(objs3, "GameObjects", obj)) ELSE objs3
                 gp    == IF settings.importGOBJ THEN Len(objs4) ELSE None
             IN  [objects |-> objs4, bpyMeshes |-> mshs1,
                  frame |-> Frame(f, givenParent, obj, "ADT", csv[f].rows, wp, dp, gp)]
        ELSE LET make  == givenParent = None /\ settings.importWMOSets
                 objs2 == IF make
                          THEN Append(objs1, NewEmpty(objs1, "Doodads", obj)) ELSE objs1
                 given == IF make THEN Len(objs2) ELSE givenParent
             IN  [objects |-> objs2, bpyMeshes |-> mshs1,
                  frame |-> Frame(f, given, obj, "WMO", csv[f].rows, None, None, None)]

\* An uncaught Python exception: every frame unwinds and the call fails.
Raise(err, log) ==
    /\ stack' = <<>>
    /\ runs' = [log EXCEPT ![CurrentRun].status = err]

\* The recursive call importWoWOBJ(f, givenParent, settings) made from the
\* row loop of the top frame, left as `caller` while the callee runs.
CallImport(objs, caller, f, givenParent, log) ==
    IF Len(stack) >= MaxDepth
    THEN /\ Raise("RecursionError", log)
         /\ objects' = objs
         /\ bpyMeshes' = bpyMeshes
    ELSE IF f \notin OnDisk
    THEN /\ Raise("FileNotFoundError", log)
         /\ objects' = objs
         /\ bpyMeshes' = bpyMeshes
    ELSE LET e == Enter(objs, bpyMeshes, f, givenParent)
         IN  /\ objects' = e.objects
             /\ bpyMeshes' = e.bpyMeshes
             /\ stack' = Append([stack EXCEPT ![Len(stack)] = caller], e.frame)
             /\ runs' = log

\* The scene importer does not look into the files it reads: every file on
\* disk is taken to be a well-formed mesh, and the reader stays idle.
ReaderIdle ==
    /\ pc = "idle"
    /\ verts = <<>>
    /\ normals = <<>>
    /\ uvs = <<>>
    /\ meshes = <<>>
    /\ meshIndex = 0 - 1
    /\ bm = [verts |-> 0, faces |-> <<>>]
    /\ cur = 0
    /\ vtLines = <<>>

Init ==
    /\ settings \in Settings
    /\ \E t \in ADTTables :
          csv = [f \in Files |->
                    IF f = "a.obj" THEN [style |-> "ADT", rows |-> t]
                    ELSE IF f = "w.obj" THEN [style |-> "WMO", rows |-> WMOTable]
                    ELSE NoTable]
    /\ objects = <<>>
    /\ bpyMeshes = <<>>
    /\ scene = [has |-> FALSE, importedModelIDs |-> <<>>]
    /\ stack = <<>>
    /\ runs = <<>>
    /\ last = NoEvent
    /\ ReaderIdle

\* The files the operator is pointed at: the terrain tile or the WMO.
TopLevelFiles == {"a.obj", "w.obj"}

\* importWoWOBJAddon(objectFile, settings): a top-level import.  A session
\* imports one file, and may import it again into the same scene.
ImportAddon(f) ==
    /\ stack = <<>>
    /\ Len(runs) < MaxRuns
    /\ runs # <<>> => f = runs[1].objectFile
    /\ LET e == Enter(objects, bpyMeshes, f, None)
       IN  /\ objects' = e.objects
           /\ bpyMeshes' = e.bpyMeshes
           /\ stack' = <<e.frame>>
    /\ runs' = Append(runs, [objectFile |-> f, status |-> "running",
                             result |-> None, out |-> <<>>])
    /\ UNCHANGED <<readerVars, settings, csv, scene, last>>

\* --------------------------------------------------------- the row loop
\* `for row in reader` has another row for the innermost frame.
HasRow == stack # <<>> /\ Top.done < Len(Top.rows)

Row == Top.rows[Top.done + 1]

\* History: what the row loop decided for the current row.
Event(kind, node) ==
    [kind |-> kind, row |-> <<Row>>, table |-> Top.importType,
     file |-> Top.objectFile, depth |-> Len(stack), run |-> CurrentRun,
     nameKnown |-> HasName(objects, Row.ModelFile),
     hasTable |-> CsvExists(Row.ModelFile),
     onStack |-> Row.ModelFile \in Resolving, node |-> node]

\* History: the decisions for the rows of the top-level table, in order.
Logged(kind) ==
    IF Len(stack) = 1
    THEN [runs EXCEPT ![CurrentRun].out = Append(@, [row |-> Row, kind |-> kind])]
    ELSE runs

\* Lines 432-435: the list read back from the scene property.
TempRead == IF scene.has THEN scene.importedModelIDs ELSE <<>>

\* Mutant of Skips: the allowDuplicates override is forgotten.
SkipsKnownIds == Row.ModelId \in Range(TempRead)

\* Lines 436-439: the row is a known ModelId and duplicates are not allowed.
Skips == Row.ModelId \in Range(TempRead) /\ ~settings.allowDuplicates

\* Lines 440-441: tempModelIDList after the membership test.
TempList ==
    IF Row.ModelId \in Range(TempRead) THEN TempRead
    ELSE Append(TempRead, Row.ModelId)

\* Line 515: bpy.context.scene['importedModelIDs'] = tempModelIDList
Registered(list) == [has |-> TRUE, importedModelIDs |-> list]

\* The row is finished: on to the next one.
Advance(frame) ==
    [frame EXCEPT !.done = @ + 1, !.tempModelIDList = <<>>, !.parent = None]

NextRow == [stack EXCEPT ![Len(stack)] = Advance(Top)]

\* Mutant of CopiesWMO: the check for the file's own placement table is dropped.
CopiesWMOByName(objs, f) == HasName(objs, f)

\* Lines 462, 466: a WMO row copies the object named like its file, unless the
\* file has a placement table of its own ("Don't copy WMOs with doodads!").
CopiesWMO(objs, f) == HasName(objs, f) /\ ~CsvExists(f)

\* Lines 479, 499, 519: every other row copies whenever the name is in the scene.
Copies(objs, f) == HasName(objs, f)

\* Lines 448-459: the empty that holds a WMO and carries its placement.
WMOParent(objs, row, wmoparent) ==
    [NewEmpty(objs, row.ModelFile \o " parent", wmoparent) EXCEPT
        !.location = ADTLocation(row),
        !.rotation = ADTRotation(Euler(0, 0, 0), row),
        !.scale = ScaleOf(row, One3),
        !.row = <<row>>]

\* Lines 488-497: an m2 placed under the Doodads group.
PlaceM2(node, row, doodadparent) ==
    [node EXCEPT !.parent = doodadparent,
                 !.location = ADTLocation(row),
                 !.rotation = ADTRotation(@, row),
                 !.scale = ScaleOf(row, @),
                 !.row = <<row>>]

\* Lines 508-514: a game object placed under the GameObjects group.
PlaceGOBJ(node, row, gobjparent) ==
    [node EXCEPT !.parent = gobjparent,
                 !.location = GOBJLocation(row),
                 !.rotation = [quat |-> <<row.RotationX, row.RotationY,
                                          0 - row.RotationZ, row.RotationW>>,
                               deg |-> <<0, 0, 0>>],
                 !.scale = ScaleOf(row, @),
                 !.row = <<row>>]

\* Lines 526-535: a doodad of a WMO set placed under givenParent or obj.
PlaceDoodad(node, row, frame) ==
    [node EXCEPT !.location = WMOLocation(row),
                 !.rotation = [quat |-> <<row.RotationW, row.RotationX,
                                          row.RotationY, row.RotationZ>>,
                               deg |-> <<90, 0, 0>>],
                 !.parent = IF frame.givenParent # None
                            THEN frame.givenParent ELSE frame.obj,
                 !.scale = ScaleOf(row, @),
                 !.row = <<row>>]

\* Lines 436-439: `continue` before anything is imported or written back.
RowSkip ==
    /\ HasRow /\ Top.importType = "ADT" /\ Skips
    /\ stack' = NextRow
    /\ runs' = Logged("skip")
    /\ last' = Event("skip", None)
    /\ UNCHANGED <<readerVars, settings, csv, objects, bpyMeshes, scene>>

\* Lines 444-463, 466-467: a WMO row whose file is parsed by a recursive call.
RowWMOImport ==
    /\ HasRow /\ Top.importType = "ADT" /\ ~Skips
    /\ Row.Type = "wmo" /\ settings.importWMO
    /\ LET objs1  == Append(objects, WMOParent(objects, Row, Top.wmoparent))
           parent == Len(objs1)
       IN  /\ ~CopiesWMO(objs1, Row.ModelFile)
           /\ CallImport(objs1,
                         [Top EXCEPT !.tempModelIDList = TempList, !.parent = parent],
                         Row.ModelFile, parent, Logged("fresh"))
           /\ last' = Event("fresh", parent)
    /\ UNCHANGED <<readerVars, settings, csv, scene>>

\* Lines 444-461, 468-474, 515: a WMO row served by a copy of the object and
\* of its mesh.
RowWMOCopy ==
    /\ HasRow /\ Top.importType = "ADT" /\ ~Skips
    /\ Row.Type = "wmo" /\ settings.importWMO
    /\ LET objs1  == Append(objects, WMOParent(objects, Row, Top.wmoparent))
           parent == Len(objs1)
       IN  /\ CopiesWMO(objs1, Row.ModelFile)
           /\ LET orig == ByName(objs1, Row.ModelFile)
                  copy == [CopyObject(objs1, orig) EXCEPT
                              !.data = Len(bpyMeshes) + 1, !.parent = parent]
              IN  /\ objects' = Append(objs1, copy)
                  /\ bpyMeshes' = Append(bpyMeshes, [name |-> bpyMeshes[objs1[orig].data].name,
                                               made |-> "copy"])
           /\ last' = Event("instance", parent)
    /\ scene' = Registered(TempList)
    /\ stack' = NextRow
    /\ runs' = Logged("instance")
    /\ UNCHANGED <<readerVars, settings, csv>>

\* Lines 475-480: an m2 row whose file is not in the scene yet.
RowM2Import ==
    /\ HasRow /\ Top.importType = "ADT" /\ ~Skips
    /\ Row.Type = "m2" /\ settings.importM2
    /\ ~Copies(objects, Row.ModelFile)
    /\ CallImport(objects, [Top EXCEPT !.tempModelIDList = TempList],
                  Row.ModelFile, None, Logged("fresh"))
    /\ last' = Event("fresh", None)
    /\ UNCHANGED <<readerVars, settings, csv, scene>>

\* Lines 475-478, 481-497, 515: an m2 row served by a copy of the object.
RowM2Copy ==
    /\ HasRow /\ Top.importType = "ADT" /\ ~Skips
    /\ Row.Type = "m2" /\ settings.importM2
    /\ Copies(objects, Row.ModelFile)
    /\ LET orig == ByName(objects, Row.ModelFile)
           copy == [CopyObject(objects, orig) EXCEPT !.rotation = Euler(90, 0, 0)]
       IN  objects' = Append(objects, PlaceM2(copy, Row, Top.doodadparent))
    /\ scene' = Registered(TempList)
    /\ stack' = NextRow
    /\ runs' = Logged("instance")
    /\ last' = Event("instance", Len(objects) + 1)
    /\ UNCHANGED <<readerVars, settings, csv, bpyMeshes>>

\* Lines 498-500: a gobj row whose file is not in the scene yet.
RowGOBJImport ==
    /\ HasRow /\ Top.importType = "ADT" /\ ~Skips
    /\ Row.Type = "gobj" /\ settings.importGOBJ
    /\ ~Copies(objects, Row.ModelFile)
    /\ CallImport(objects, [Top EXCEPT !.tempModelIDList = TempList],
                  Row.ModelFile, None, Logged("fresh"))
    /\ last' = Event("fresh", None)
    /\ UNCHANGED <<readerVars, settings, csv, scene>>

\* Lines 498-499, 501-515: a gobj row served by a copy of the object.
RowGOBJCopy ==
    /\ HasRow /\ Top.importType = "ADT" /\ ~Skips
    /\ Row.Type = "gobj" /\ settings.importGOBJ
    /\ Copies(objects, Row.ModelFile)
    /\ LET orig == ByName(objects, Row.ModelFile)
           copy == [CopyObject(objects, orig) EXCEPT !.rotation = Euler(90, 0, 0)]
       IN  objects' = Append(objects, PlaceGOBJ(copy, Row, Top.gobjparent))
    /\ scene' = Registered(TempList)
    /\ stack' = NextRow
    /\ runs' = Logged("instance")
    /\ last' = Event("instance", Len(objects) + 1)
    /\ UNCHANGED <<readerVars, settings, csv, bpyMeshes>>

\* Lines 444, 475, 498, 515: no branch takes the row (its category is switched
\* off); the list is still written back.
RowDisabled ==
    /\ HasRow /\ Top.importType = "ADT" /\ ~Skips
    /\ ~(Row.Type = "wmo" /\ settings.importWMO)
    /\ ~(Row.Type = "m2" /\ settings.importM2)
    /\ ~(Row.Type = "gobj" /\ settings.importGOBJ)
    /\ scene' = Registered(TempList)
    /\ stack' = NextRow
    /\ runs' = Logged("disabled")
    /\ last' = Event("disabled", None)
    /\ UNCHANGED <<readerVars, settings, csv, objects, bpyMeshes>>

\* Lines 516-520: a doodad row whose file is not in the scene yet.
RowDoodadImport ==
    /\ HasRow /\ Top.importType = "WMO" /\ settings.importWMOSets
    /\ ~Copies(objects, Row.ModelFile)
    /\ CallImport(objects, Top, Row.ModelFile, None, Logged("fresh"))
    /\ last' = Event("fresh", None)
    /\ UNCHANGED <<readerVars, settings, csv, scene>>

\* Lines 516-518, 521-535: a doodad row served by a copy of the object.
RowDoodadCopy ==
    /\ HasRow /\ Top.importType = "WMO" /\ settings.importWMOSets
    /\ Copies(objects, Row.ModelFile)
    /\ LET orig == ByName(objects, Row.ModelFile)
       IN  objects' = Append(objects, PlaceDoodad(CopyObject(objects, orig), Row, Top))
    /\ stack' = NextRow
    /\ runs' = Logged("instance")
    /\ last' = Event("instance", Len(objects) + 1)
    /\ UNCHANGED <<readerVars, settings, csv, bpyMeshes, scene>>

\* Line 516: importWMOSets is off, the row of a WMO-style table does nothing.
RowIgnored ==
    /\ HasRow /\ Top.importType = "WMO" /\ ~settings.importWMOSets
    /\ stack' = NextRow
    /\ runs' = Logged("ignored")
    /\ last' = Event("ignored", None)
    /\ UNCHANGED <<readerVars, settings, csv, objects, bpyMeshes, scene>>

\* Line 537 of a nested call, then the rest of the caller's row: the returned
\* object is parented and placed, and an ADT caller writes its list back.
Return ==
    /\ Len(stack) > 1 /\ Top.done = Len(Top.rows)
    /\ LET caller == stack[Len(stack) - 1]
           row    == caller.rows[caller.done + 1]
           imp    == Top.obj
       IN  /\ objects' =
                 IF caller.importType = "WMO"
                 THEN [objects EXCEPT ![imp] = PlaceDoodad(@, row, caller)]
                 ELSE IF row.Type = "wmo"
                 THEN [objects EXCEPT ![imp].parent = caller.parent]
                 ELSE IF row.Type = "m2"
                 THEN [objects EXCEPT ![imp] = PlaceM2(@, row, caller.doodadparent)]
                 ELSE [objects EXCEPT ![imp] = PlaceGOBJ(@, row, caller.gobjparent)]
           /\ scene' = IF caller.importType = "ADT"
                       THEN Registered(caller.tempModelIDList) ELSE scene
           /\ stack' = Append(SubSeq(stack, 1, Len(stack) - 2), Advance(caller))
    /\ UNCHANGED <<readerVars, settings, csv, bpyMeshes, runs, last>>

\* Line 537 of the top-level call: the root object is returned.
Finish ==
    /\ Len(stack) = 1 /\ Top.done = Len(Top.rows)
    /\ stack' = <<>>
    /\ runs' = [runs EXCEPT ![CurrentRun].status = "done",
                            ![CurrentRun].result = Top.obj]
    /\ UNCHANGED <<readerVars, settings, csv, objects, bpyMeshes, scene, last>>

Next ==
    \/ \E f \in TopLevelFiles : ImportAddon(f)
    \/ RowSkip
    \/ RowWMOImport
    \/ RowWMOCopy
    \/ RowM2Import
    \/ RowM2Copy
    \/ RowGOBJImport
    \/ RowGOBJCopy
    \/ RowDisabled
    \/ RowDoodadImport
    \/ RowDoodadCopy
    \/ RowIgnored
    \/ Return
    \/ Finish

Spec == Init /\ [][Next]_vars


\* ------------------------------------------------- the OBJ reader (bounds)
\* 'v' lines, and 'vn' lines, in one file.
MaxVerts == 3
\* 'f' lines in one file.
MaxFaces == 2
\* 'g' lines in one file.
MaxGroups == 2
\* 'vt' lines in one file.
MaxUVs == 2

\* ------------------------------------------------------------ the OBJ reader
\* The index lists of the 'f' lines a file is drawn from (the part of each
\* v/vt/vn token before the first slash, as int() reads it).
FaceLines ==
    { <<1, 2, 3>>, <<3, 1, 2>>, <<0, 1, 2>>, <<0 - 1, 1, 3>>, <<1, 2, 4>>,
      <<1, 1, 2>>, <<1, 2, 3, 4>>, <<1, 2>> }

\* The digit that ends a 'vt' token: <<>> for plain vt, <<n>> for vtn.
VTSuffixes == { <<>>, <<2>>, <<3>> }

\* class OBJMesh
OBJMesh(name) == [usemtl |-> "", name |-> name, verts |-> {}, faces |-> <<>>]

\* seq[i] with a Python index i: the 1-based position, or 0 for IndexError.
PyIndex(len, i) ==
    IF i >= 0 /\ i < len THEN i + 1
    ELSE IF i < 0 /\ i >= 0 - len THEN len + i + 1
    ELSE 0

RECURSIVE Flatten(_)
Flatten(ms) == IF ms = <<>> THEN <<>> ELSE ms[1].faces \o Flatten(Tail(ms))

\* `for mesh in meshes: for face in mesh.faces`, in order
AllFaces == Flatten(meshes)

RECURSIVE SumLen(_)
SumLen(ss) == IF ss = <<>> THEN 0 ELSE Len(ss[1]) + SumLen(Tail(ss))

\* The reader opens one file.
MeshInit ==
    /\ settings = [importWMO |-> FALSE, importM2 |-> FALSE, importGOBJ |-> FALSE,
                   importWMOSets |-> FALSE, allowDuplicates |-> FALSE]
    /\ csv = [f \in Files |-> NoTable]
    /\ objects = <<>>
    /\ bpyMeshes = <<>>
    /\ scene = [has |-> FALSE, importedModelIDs |-> <<>>]
    /\ stack = <<>>
    /\ runs = <<>>
    /\ last = NoEvent
    /\ pc = "read"
    /\ verts = <<>>
    /\ normals = <<>>
    /\ uvs = <<>>
    /\ meshes = <<>>
    /\ meshIndex = 0 - 1
    /\ bm = [verts |-> 0, faces |-> <<>>]
    /\ cur = 0
    /\ vtLines = <<>>

\* Lines 222-223: a 'v' line
LineV ==
    /\ pc = "read" /\ Len(verts) < MaxVerts
    /\ verts' = Append(verts, <<0, 0, 0>>)
    /\ UNCHANGED <<sceneVars, vtLines, pc, normals, uvs, meshes, meshIndex, bm, cur>>

\* Lines 224-225: a 'vn' line
LineVN ==
    /\ pc = "read" /\ Len(normals) < MaxVerts
    /\ normals' = Append(normals, <<0, 0, 1>>)
    /\ UNCHANGED <<sceneVars, vtLines, pc, verts, uvs, meshes, meshIndex, bm, cur>>

\* Lines 226-236: a 'vt' or 'vtN' line
LineVT(suffix) ==
    /\ pc = "read" /\ SumLen(uvs) < MaxUVs
    /\ LET layer_index == IF suffix = <<>> THEN 0 ELSE suffix[1] - 1
           uvs1 == IF Len(uvs) <= layer_index THEN Append(uvs, <<>>) ELSE uvs
           at   == PyIndex(Len(uvs1), layer_index)
       IN  /\ IF at = 0
              THEN /\ pc' = "IndexError"
                   /\ uvs' = uvs1
              ELSE /\ pc' = pc
                   /\ uvs' = [uvs1 EXCEPT ![at] = Append(@, <<0, 0>>)]
           /\ vtLines' = Append(vtLines, layer_index)
    /\ UNCHANGED <<sceneVars, verts, normals, meshes, meshIndex, bm, cur>>

\* Lines 237-241: an 'f' line
LineF(fv) ==
    /\ pc = "read" /\ Len(AllFaces) < MaxFaces
    /\ IF PyIndex(Len(meshes), meshIndex) = 0 \/ Len(fv) < 3
       THEN /\ pc' = "IndexError"
            /\ meshes' = meshes
       ELSE /\ pc' = pc
            /\ meshes' = [meshes EXCEPT
                  ![PyIndex(Len(meshes), meshIndex)] =
                      [@ EXCEPT !.faces = Append(@, <<fv[1], fv[2], fv[3]>>),
                                !.verts = @ \cup {fv[i] - 1 : i \in DOMAIN fv}]]
    /\ UNCHANGED <<sceneVars, vtLines, verts, normals, uvs, meshIndex, bm, cur>>

\* Lines 242-245: a 'g' line
LineG ==
    /\ pc = "read" /\ Len(meshes) < MaxGroups
    /\ meshIndex' = meshIndex + 1
    /\ meshes' = Append(meshes, OBJMesh("group"))
    /\ UNCHANGED <<sceneVars, vtLines, pc, verts, normals, uvs, bm, cur>>

\* Lines 246-247: a 'usemtl' line
LineUsemtl ==
    /\ pc = "read"
    /\ IF PyIndex(Len(meshes), meshIndex) = 0
       THEN /\ pc' = "IndexError"
            /\ meshes' = meshes
       ELSE /\ pc' = pc
            /\ meshes' = [meshes EXCEPT
                  ![PyIndex(Len(meshes), meshIndex)].usemtl = "material"]
    /\ UNCHANGED <<sceneVars, vtLines, verts, normals, uvs, meshIndex, bm, cur>>

\* Line 215: the file has no more lines.
EndOfFile ==
    /\ pc = "read"
    /\ pc' = "verts"
    /\ UNCHANGED <<sceneVars, vtLines, verts, normals, uvs, meshes, meshIndex, bm, cur>>

\* Lines 313-322: one bmesh vertex per 'v' line, with the normal of the same rank.
BuildVerts ==
    /\ pc = "verts"
    /\ IF Len(normals) < Len(verts)
       THEN /\ pc' = "IndexError"
            /\ bm' = [bm EXCEPT !.verts = Len(normals)]
       ELSE /\ pc' = "faces"
            /\ bm' = [bm EXCEPT !.verts = Len(verts)]
    /\ UNCHANGED <<sceneVars, vtLines, verts, normals, uvs, meshes, meshIndex, cur>>

\* bm.verts[face[k] - 1] for the three corners: vertex ranks (0-based), or <<>>
\* when one of the look-ups raises IndexError.
Corners(face, n) ==
    IF \A k \in 1..3 : PyIndex(n, face[k] - 1) # 0
    THEN [k \in 1..3 |-> PyIndex(n, face[k] - 1) - 1]
    ELSE <<>>

\* bm.faces.new raises ValueError: a corner is used twice, or a face on the
\* same vertices exists.
Refused(corners, faces) ==
    \/ Cardinality(Range(corners)) < 3
    \/ \E i \in DOMAIN faces : Range(faces[i].verts) = Range(corners)

\* Lines 324-352: the next face of the file is added to the bmesh; ValueError
\* is swallowed, IndexError is not.
BuildFace ==
    /\ pc = "faces" /\ cur < Len(AllFaces)
    /\ LET face    == AllFaces[cur + 1]
           corners == Corners(face, bm.verts)
       IN  IF corners = <<>>
           THEN /\ pc' = "IndexError"
                /\ UNCHANGED <<bm, cur>>
           ELSE /\ pc' = pc
                /\ cur' = cur + 1
                /\ bm' = IF Refused(corners, bm.faces) THEN bm
                         ELSE [bm EXCEPT !.faces =
                                  Append(@, [src |-> face, verts |-> corners])]
    /\ UNCHANGED <<sceneVars, vtLines, verts, normals, uvs, meshes, meshIndex>>

\* Lines 354-363: every loop of every face takes its UV from each layer by
\* vertex rank, then the mesh is written.
BuildUVs ==
    /\ pc = "faces" /\ cur = Len(AllFaces)
    /\ pc' = IF \A l \in DOMAIN uvs : \A i \in DOMAIN bm.faces :
                   \A k \in 1..3 : bm.faces[i].verts[k] < Len(uvs[l])
             THEN "built" ELSE "IndexError"
    /\ UNCHANGED <<sceneVars, vtLines, verts, normals, uvs, meshes, meshIndex, bm, cur>>

MeshNext ==
    \/ LineV
    \/ LineVN
    \/ \E suffix \in VTSuffixes : LineVT(suffix)
    \/ \E fv \in FaceLines : LineF(fv)
    \/ LineG
    \/ LineUsemtl
    \/ EndOfFile
    \/ BuildVerts
    \/ BuildFace
    \/ BuildUVs

MeshSpec == MeshInit /\ [][MeshNext]_vars

\* ================================================================ claims
\* Vocabulary of the claims.
IsADTRow(row) == "Type" \in DOMAIN row

EnabledRow(row) ==
    \/ row.Type = "wmo" /\ settings.importWMO
    \/ row.Type = "m2" /\ settings.importM2
    \/ row.Type = "gobj" /\ settings.importGOBJ

Imported == {"fresh", "instance"}

\* A top-level import of the ADT tile that returned.
DoneADT(r) == runs[r].status = "done" /\ runs[r].objectFile = "a.obj"

\* Rows of the tile's table carrying ModelId k.
RowsWithId(k) ==
    {j \in DOMAIN csv["a.obj"].rows : csv["a.obj"].rows[j].ModelId = k}

ImportedRows(r, js) ==
    {j \in js : j \in DOMAIN runs[r].out /\ runs[r].out[j].kind \in Imported}

ModelIds == {row.ModelId : row \in ADTRows}

\* The rows sharing ModelId k are at least two, all of an enabled category and
\* all resolvable.
SharedId(k) ==
    /\ Cardinality(RowsWithId(k)) >= 2
    /\ \A j \in RowsWithId(k) :
          /\ EnabledRow(csv["a.obj"].rows[j])
          /\ csv["a.obj"].rows[j].ModelFile \in OnDisk

\* C1: in the first top-level import of an ADT tile into an empty scene, of the
\* rows sharing one ModelId (all enabled and resolvable) exactly one is
\* imported when allowDuplicates is off and all of them when it is on.
C1_Dedup ==
    (runs # <<>> /\ DoneADT(1)) =>
        \A k \in ModelIds :
            SharedId(k) =>
                Cardinality(ImportedRows(1, RowsWithId(k))) =
                    IF settings.allowDuplicates
                    THEN Cardinality(RowsWithId(k)) ELSE 1

C1_Witness ==
    /\ runs # <<>> /\ DoneADT(1)
    /\ ~settings.allowDuplicates
    /\ \E k \in ModelIds :
          /\ SharedId(k)
          /\ Cardinality(ImportedRows(1, RowsWithId(k))) = 1
          /\ \E j \in RowsWithId(k) : runs[1].out[j].kind = "skip"

\* C2 (as claimed): a row of a disabled category registers nothing, so in the
\* first import with allowDuplicates off every enabled, resolvable row that no
\* earlier enabled row shares its ModelId with is imported.
C2_DisabledRowNotRegistered ==
    (runs # <<>> /\ DoneADT(1) /\ ~settings.allowDuplicates) =>
        \A j \in DOMAIN csv["a.obj"].rows :
            LET rows == csv["a.obj"].rows
            IN  ( /\ EnabledRow(rows[j])
                  /\ \A i \in 1..(j - 1) :
                        rows[i].ModelId = rows[j].ModelId => ~EnabledRow(rows[i]) )
                => j \in ImportedRows(1, {j})

\* The ModelIds a top-level import of the tile imported.
ImportedIds(r) ==
    {runs[r].out[j].row.ModelId : j \in ImportedRows(r, DOMAIN runs[r].out)}

\* C3 (as claimed): the registry does not outlive a top-level call, so with
\* allowDuplicates off a second import of the same tile imports the same
\* ModelIds as the first.
C3_RegistryPerCall ==
    (Len(runs) >= 2 /\ DoneADT(1) /\ DoneADT(2) /\ ~settings.allowDuplicates) =>
        ImportedIds(2) = ImportedIds(1)

\* C4 (as claimed): a row whose ModelFile is a file being resolved (the current
\* file or an ancestor of it) makes the import fail with CyclicReferenceError.
C4_CycleRaises ==
    (last.kind \in Imported /\ last.onStack) =>
        runs[last.run].status = "CyclicReferenceError"

\* Nodes that an m2, gobj or WMO-doodad row has placed.
PlacedByNonWMO ==
    {n \in DOMAIN objects :
        /\ objects[n].row # <<>>
        /\ IsADTRow(objects[n].row[1]) => objects[n].row[1].Type # "wmo"}

C5_SharedMesh ==
    \A n1, n2 \in PlacedByNonWMO :
        objects[n1].row[1].ModelFile = objects[n2].row[1].ModelFile
            => objects[n1].data = objects[n2].data

C5_TransformsKept ==
    \A n \in DOMAIN objects :
        objects[n].row # <<>> =>
            /\ objects'[n].location = objects[n].location
            /\ objects'[n].rotation = objects[n].rotation
            /\ objects'[n].scale = objects[n].scale

\* C5: the nodes that m2, gobj and doodad rows place for the same ModelFile are
\* separate objects on one and the same mesh, and placing a node never changes
\* the transform of a node placed before.
C5_InstanceSharing == []C5_SharedMesh /\ [][C5_TransformsKept]_vars

C5_Witness ==
    \E n1, n2 \in PlacedByNonWMO :
        /\ n1 # n2
        /\ objects[n1].row[1].ModelFile = objects[n2].row[1].ModelFile
        /\ objects[n1].made = "parsed" /\ objects[n2].made = "copy"
        /\ objects[n1].data = objects[n2].data
        /\ objects[n1].location # objects[n2].location

\* C6 (as claimed): a row whose file is missing abandons only its own branch:
\* the top-level call still returns its root after processing every row.
C6_PartialFailure ==
    \A r \in DOMAIN runs :
        ( /\ r < CurrentRun \/ stack = <<>>
          /\ \E j \in DOMAIN runs[r].out :
                /\ runs[r].out[j].kind = "fresh"
                /\ runs[r].out[j].row.ModelFile \notin OnDisk )
        => /\ runs[r].status = "done"
           /\ runs[r].result # None
           /\ Len(runs[r].out) = Len(csv[runs[r].objectFile].rows)

\* C7: a node placed by a wmo or m2 row sits at (51200/3 - gx, -(51200/3 - gz),
\* gy), whether parsed or copied; one placed by a gobj row at (gy, -gx, gz).
C7_Translation ==
    \A n \in DOMAIN objects :
        (objects[n].row # <<>> /\ IsADTRow(objects[n].row[1])) =>
            LET r   == objects[n].row[1]
                loc == objects[n].location
            IN  IF r.Type \in {"wmo", "m2"}
                THEN /\ loc[1][2] > 0 /\ loc[2][2] > 0
                     /\ 3 * loc[1][1] = (51200 - 3 * r.PositionX) * loc[1][2]
                     /\ 3 * loc[2][1] = (3 * r.PositionZ - 51200) * loc[2][2]
                     /\ loc[3] = <<r.PositionY, 1>>
                ELSE loc = << <<r.PositionY, 1>>, <<0 - r.PositionX, 1>>,
                              <<r.PositionZ, 1>> >>

C7_Witness ==
    \E n1, n2, n3 \in DOMAIN objects :
        /\ objects[n1].row # <<>> /\ objects[n2].row # <<>> /\ objects[n3].row # <<>>
        /\ IsADTRow(objects[n1].row[1]) /\ objects[n1].row[1].Type = "m2"
        /\ objects[n1].made = "copy"
        /\ IsADTRow(objects[n2].row[1]) /\ objects[n2].row[1].Type = "m2"
        /\ objects[n2].made = "parsed"
        /\ IsADTRow(objects[n3].row[1]) /\ objects[n3].row[1].Type = "gobj"

\* C8 (as claimed): the scale of a placed node is (s, s, s) for its own row's
\* ScaleFactor s, and (1, 1, 1) when its row's ScaleFactor is empty.
C8_ScaleFromOwnRow ==
    \A n \in DOMAIN objects :
        objects[n].row # <<>> =>
            LET r == objects[n].row[1]
            IN  objects[n].scale =
                    IF r.ScaleFactor # <<>>
                    THEN << <<r.ScaleFactor[1], 1>>, <<r.ScaleFactor[1], 1>>,
                            <<r.ScaleFactor[1], 1>> >>
                    ELSE << <<1, 1>>, <<1, 1>>, <<1, 1>> >>

\* C10 (as claimed): whatever the row's category, the row is served by a copy
\* exactly when the name is in the scene and the file has no table of its own.
C10_CopyIffNoTable ==
    last.kind \in Imported =>
        (last.kind = "instance" <=> (last.nameKnown /\ ~last.hasTable))

\* C10 (amended): a wmo row is served by a copy exactly when the name is in the
\* scene and the file has no placement table; an m2, gobj or doodad row exactly
\* when the name is in the scene, table or not.
C10_CopyDecision ==
    last.kind \in Imported =>
        IF IsADTRow(last.row[1]) /\ last.row[1].Type = "wmo"
        THEN last.kind = "instance" <=> (last.nameKnown /\ ~last.hasTable)
        ELSE last.kind = "instance" <=> last.nameKnown

C10_Witness ==
    /\ last.kind = "fresh"
    /\ IsADTRow(last.row[1]) /\ last.row[1].Type = "wmo"
    /\ last.nameKnown /\ last.hasTable
    /\ \E n \in PlacedByNonWMO :
          /\ objects[n].made = "copy"
          /\ CsvExists(objects[n].row[1].ModelFile)


\* C9 (as claimed): in a mesh that was read and built, every face index lies in
\* 1..len(verts), every face line became a face, and each corner is the vertex
\* its index names.
C9_FacesInRange ==
    pc = "built" =>
        /\ \A i \in DOMAIN AllFaces : \A k \in 1..3 :
              AllFaces[i][k] \in 1..Len(verts)
        /\ Len(bm.faces) = Len(AllFaces)
        /\ \A i \in DOMAIN bm.faces : \A k \in 1..3 :
              bm.faces[i].verts[k] = bm.faces[i].src[k] - 1

\* The placement categories of an ADT table, the setting that enables each,
\* and the name of the group node its placements hang under.
Categories == {"wmo", "m2", "gobj"}

CategoryOn(c) ==
    IF c = "wmo" THEN settings.importWMO
    ELSE IF c = "m2" THEN settings.importM2
    ELSE settings.importGOBJ

GroupName(c) ==
    IF c = "wmo" THEN "WMOs" ELSE IF c = "m2" THEN "Doodads" ELSE "GameObjects"

\* The group nodes of category c under a root.
GroupsOf(root, c) ==
    {n \in DOMAIN objects :
        /\ objects[n].made = "empty"
        /\ objects[n].parent = root
        /\ objects[n].name[1] = GroupName(c)}

RowsOfCategory(c) ==
    {j \in DOMAIN csv["a.obj"].rows : csv["a.obj"].rows[j].Type = c}

\* C11 (as claimed): when a top-level import of the tile has returned, the root
\* has a group node of a category exactly when the category is enabled and the
\* table has a row of it, and never more than one.
C11_LazyGroups ==
    \A r \in DOMAIN runs :
        DoneADT(r) =>
            \A c \in Categories :
                /\ GroupsOf(runs[r].result, c) # {}
                      <=> (CategoryOn(c) /\ RowsOfCategory(c) # {})
                /\ Cardinality(GroupsOf(runs[r].result, c)) <= 1

\* C11 (amended): when a top-level import of the tile has returned, the root
\* has exactly one group node of each enabled category, whatever rows the
\* table holds, and none of a disabled category.
C11_EagerGroups ==
    \A r \in DOMAIN runs :
        DoneADT(r) =>
            \A c \in Categories :
                Cardinality(GroupsOf(runs[r].result, c)) =
                    IF CategoryOn(c) THEN 1 ELSE 0

C11_Witness ==
    \E r \in DOMAIN runs :
        /\ DoneADT(r)
        /\ settings.importM2 /\ ~settings.importGOBJ
        /\ RowsOfCategory("m2") = {} /\ RowsOfCategory("gobj") # {}
        /\ Cardinality(GroupsOf(runs[r].result, "m2")) = 1
        /\ objects[CHOOSE n \in GroupsOf(runs[r].result, "m2") : TRUE].name
              = <<"Doodads", 0>>
        /\ GroupsOf(runs[r].result, "gobj") = {}
        /\ \E j \in DOMAIN runs[r].out : runs[r].out[j].kind \in Imported

\* How many of the 'vt' lines read named channel c, and how many entries
\* channel c holds.
LinesFor(c) == Cardinality({i \in DOMAIN vtLines : vtLines[i] = c})

StoredIn(c) == IF c < Len(uvs) THEN Len(uvs[c + 1]) ELSE 0

\* The channel indices a 'vt' token can name: 0 for vt, n - 1 for vtn.
Channels == {IF suffix = <<>> THEN 0 ELSE suffix[1] - 1 : suffix \in VTSuffixes}

\* C12 (as claimed): in whatever order the vt and vtN lines come, every one of
\* them is accepted and stored in the channel its suffix names, so each channel
\* holds exactly the lines that named it.
C12_ChannelBySuffix ==
    \A c \in Channels : StoredIn(c) = LinesFor(c)

====
